---- MODULE Spec2Model ----
(***************************************************************************)
(* A model of otpee: the HOTP generator (src/src/hotp.rs), the TOTP        *)
(* generator built on it (src/src/totp.rs) and the Otp value they return   *)
(* (src/src/otp.rs).                                                       *)
(*                                                                         *)
(* Machine integers do not fit the model checker's own integers, so a u64  *)
(* is a sequence of four 16-bit limbs, most significant first, and the     *)
(* u32 power 10^length is four bytes with an overflow flag.  A u32 that    *)
(* the code has masked with 0x7fff_ffff is a plain number.                 *)
(*                                                                         *)
(* The keyed hash is an external primitive.  It is modelled as a lazily    *)
(* sampled function: `table` remembers the digest of every message that    *)
(* was finalized, an unseen message gets any digest of the hash's output   *)
(* size, and a message seen before gets the digest it got then.            *)
(***************************************************************************)
EXTENDS Integers, Sequences, FiniteSets, TLC

VARIABLES
    hasher,           \* Hotp.hasher: the bytes buffered since the last reset
    counter,          \* Hotp.counter: u64
    length,           \* Hotp.length: usize
    out_len,          \* output size in bytes of the digest type D
    overflow_checks,  \* build profile: TRUE = arithmetic overflow panics
    table,            \* the keyed hash, as far as it has been sampled
    totp,             \* Totp.interval and Totp.skew
    result,           \* the last call: operation, arguments and outcome
    prev,             \* the call before it
    trail,            \* codes returned by code_increment since construction
    ops,              \* number of calls made
    shown             \* an Otp, the build's std feature and the Otp as text

vars == <<hasher, counter, length, out_len, overflow_checks, table, totp,
          result, prev, trail, ops, shown>>

----------------------------------------------------------------------------
(* Bounds of the model *)

MaxOps == 4

----------------------------------------------------------------------------
(* Machine integers *)

LimbBase == 2^16

LimbMax == 2^16 - 1

ByteBase == 2^8

U64Zero == <<0, 0, 0, 0>>

U64Max == <<LimbMax, LimbMax, LimbMax, LimbMax>>

\* a small natural number (below 2^31) as a u64
U64(n) == <<0, 0, n \div LimbBase, n % LimbBase>>

\* x + 1 for x # U64Max
U64Succ(x) ==
    IF x[4] < LimbMax THEN <<x[1], x[2], x[3], x[4] + 1>>
    ELSE IF x[3] < LimbMax THEN <<x[1], x[2], x[3] + 1, 0>>
    ELSE IF x[2] < LimbMax THEN <<x[1], x[2] + 1, 0, 0>>
    ELSE <<x[1] + 1, 0, 0, 0>>

\* x - 1 for x # U64Zero
U64Pred(x) ==
    IF x[4] > 0 THEN <<x[1], x[2], x[3], x[4] - 1>>
    ELSE IF x[3] > 0 THEN <<x[1], x[2], x[3] - 1, LimbMax>>
    ELSE IF x[2] > 0 THEN <<x[1], x[2] - 1, LimbMax, LimbMax>>
    ELSE <<x[1] - 1, LimbMax, LimbMax, LimbMax>>

\* u64::wrapping_add(1) in place of checked_add(1)
WrappingAdd1(x) ==
    [some |-> TRUE, val |-> IF x = U64Max THEN U64Zero ELSE U64Succ(x)]

\* u64::checked_add(1): None on overflow
CheckedAdd1(x) ==
    IF x = U64Max THEN [some |-> FALSE, val |-> x]
    ELSE [some |-> TRUE, val |-> U64Succ(x)]

\* u64::saturating_add(k) for a small k
RECURSIVE SaturatingAdd(_, _)
SaturatingAdd(x, k) ==
    IF k = 0 \/ x = U64Max THEN x ELSE SaturatingAdd(U64Succ(x), k - 1)

\* u64::saturating_sub(k) for a small k
RECURSIVE SaturatingSub(_, _)
SaturatingSub(x, k) ==
    IF k = 0 \/ x = U64Zero THEN x ELSE SaturatingSub(U64Pred(x), k - 1)

\* u64 / d for a divisor 0 < d < 2^15: long division, limb by limb
DivStep(acc, limb, d) ==
    LET cur == acc.rem * LimbBase + limb
    IN  [quot |-> Append(acc.quot, cur \div d), rem |-> cur % d]

U64Div(x, d) ==
    DivStep(DivStep(DivStep(DivStep([quot |-> <<>>, rem |-> 0],
        x[1], d), x[2], d), x[3], d), x[4], d).quot

\* u64::to_be_bytes
ToBeBytes(x) ==
    << x[1] \div ByteBase, x[1] % ByteBase, x[2] \div ByteBase, x[2] % ByteBase,
       x[3] \div ByteBase, x[3] % ByteBase, x[4] \div ByteBase, x[4] % ByteBase >>

\* a u32 is four bytes, most significant first, when it may exceed 2^31
U32(n) ==
    <<n \div 2^24, (n \div 2^16) % ByteBase, (n \div 2^8) % ByteBase, n % ByteBase>>

\* a * b in u32: the wrapped product and whether it left the 32 bits
MulU32(a, b) ==
    LET t0 == a[4] * b[4]
        t1 == a[3] * b[4] + a[4] * b[3] + t0 \div ByteBase
        t2 == a[2] * b[4] + a[3] * b[3] + a[4] * b[2] + t1 \div ByteBase
        t3 == a[1] * b[4] + a[2] * b[3] + a[3] * b[2] + a[4] * b[1]
                + t2 \div ByteBase
        high == a[1] * b[3] + a[2] * b[2] + a[3] * b[1]
                + a[1] * b[2] + a[2] * b[1] + a[1] * b[1] + t3 \div ByteBase
    IN  [val |-> <<t3 % ByteBase, t2 % ByteBase, t1 % ByteBase, t0 % ByteBase>>,
         overflow |-> high > 0]

\* the product of two powers: it overflows when a factor did or it does
MulPow(p, q) ==
    LET m == MulU32(p.val, q.val)
    IN  [val |-> m.val, overflow |-> p.overflow \/ q.overflow \/ m.overflow]

\* 10_u32.pow(exp) by squaring: the wrapped value and whether the power
\* overflowed.  Every intermediate product of pow divides the result, so
\* pow overflows exactly when the result does.
RECURSIVE Pow10U32(_)
Pow10U32(exp) ==
    IF exp = 0 THEN [val |-> U32(1), overflow |-> FALSE]
    ELSE IF exp % 2 = 1
        THEN MulPow([val |-> U32(10), overflow |-> FALSE], Pow10U32(exp - 1))
    ELSE LET half == Pow10U32(exp \div 2) IN MulPow(half, half)

\* binary % modulus for binary < 2^31 and a modulus that is not zero
RemU32(binary, modulus) ==
    IF modulus[1] >= 2^7 THEN binary
    ELSE binary % (modulus[1] * 2^24 + modulus[2] * 2^16
                    + modulus[3] * 2^8 + modulus[4])

----------------------------------------------------------------------------
(* The digest type D and the keyed hash *)

\* HMAC-SHA1 of the counters 0 and 1 under the key "12345678901234567890"
Sha1Count0 ==
    <<204, 147, 207, 24, 80, 141, 148, 147, 76, 100,
      182, 93, 139, 167, 102, 127, 183, 205, 228, 176>>

Sha1Count1 ==
    <<117, 164, 138, 25, 212, 203, 225, 0, 100, 78,
      138, 193, 57, 126, 234, 116, 122, 45, 51, 171>>

\* a 20-byte digest whose offset is 15 and whose four bytes are all 0xff
Sha1AllOnes ==
    <<0, 0, 0, 0, 0, 0, 0, 0, 0, 0, 0, 0, 0, 0, 0, 255, 255, 255, 255, 15>>

\* 16-byte digests: offset 12 (the four bytes end the digest) and offset 15
Md5Offset12 == <<0, 0, 0, 0, 0, 0, 0, 0, 0, 0, 0, 0, 18, 52, 86, 124>>

Md5Offset15 == <<0, 0, 0, 0, 0, 0, 0, 0, 0, 0, 0, 0, 18, 52, 86, 127>>

\* the output sizes of the digest types of the model
OutLens == {0, 2, 16, 20}

\* the digests a hash of that output size may return
DigestsOf(n) ==
    CASE n = 20 -> {Sha1Count0, Sha1Count1, Sha1AllOnes}
      [] n = 16 -> {Md5Offset12, Md5Offset15}
      [] n = 2  -> {<<1, 2>>, <<3, 16>>}
      [] OTHER  -> {<<>>}

\* the digest of msg, if msg was finalized before
Sampled(tbl, msg) == \E e \in tbl : e.msg = msg

Lookup(tbl, msg) == (CHOOSE e \in tbl : e.msg = msg).digest

\* the digests finalize may return for msg
Finalize(tbl, msg, n) ==
    IF Sampled(tbl, msg) THEN {Lookup(tbl, msg)} ELSE DigestsOf(n)

\* Update::update: append the bytes to the buffered message
Update(buf, bytes) == buf \o bytes

\* a finalize that keeps what was buffered
KeepBuffered(buf) == buf

\* FixedOutputReset::finalize_fixed_reset leaves the hasher keyed and empty
ResetHasher(buf) == <<>>

----------------------------------------------------------------------------
(* Otp and Hotp::code *)

OtpNew(code, len) == [code |-> code, length |-> len]

Ok(v) == [kind |-> "ok", val |-> v]

Err(e) == [kind |-> "err", val |-> e]

Panic(why) == [kind |-> "panic", val |-> why]

\* u32::from_be_bytes(digest[offset..offset + 4]) & 0x7fff_ffff
Binary(digest, offset) ==
    (digest[offset + 1] % 2^7) * 2^24 + digest[offset + 2] * 2^16
        + digest[offset + 3] * 2^8 + digest[offset + 4]

\* binary % 10_u32.pow(self.length as u32); the cast keeps every length
\* below 2^32 as it is.  With overflow checks the power panics when it
\* overflows; without them it wraps, and a power that wrapped to 0 makes
\* the remainder panic.
Modulo(binary, len, checks) ==
    LET p == Pow10U32(len)
    IN  IF p.overflow /\ checks THEN Panic("attempt to multiply with overflow")
        ELSE IF p.val = U32(0)
            THEN Panic("attempt to calculate the remainder with a divisor of zero")
        ELSE Ok(RemU32(binary, p.val))

\* Hotp::code from the digest on: lines 85 to 92
Truncate(digest, len, checks) ==
    IF Len(digest) = 0 THEN Err("HashTooShort")
    ELSE LET offset == digest[Len(digest)] % 16
         IN  IF offset + 4 > Len(digest)
                 THEN Panic("range end index out of range for slice")
             ELSE LET m == Modulo(Binary(digest, offset), len, checks)
                  IN  IF m.kind = "ok" THEN Ok(OtpNew(m.val, len)) ELSE m

----------------------------------------------------------------------------
(* Hotp *)

\* Option<T>: None is the empty sequence, Some(x) the sequence of x
None == <<>>

Some(x) == <<x>>

UnwrapOr(opt, default) == IF opt = None THEN default ELSE opt[1]

\* the digit lengths handed to the constructors
LengthArgs == {None} \cup {Some(l) : l \in {1, 8, 9, 10, 32}}

\* the counters handed to set_counter
CounterArgs == {U64Zero, U64(1), U64Pred(U64Max), U64Max}

NoTotp == [interval |-> 0, skew |-> 0]

NoCall == [op |-> "none", kind |-> "none", val |-> None, before |-> U64Zero,
           arg |-> None, now |-> U64Zero]

Call(op, arg, before, outcome) ==
    [op |-> op, kind |-> outcome.kind, val |-> outcome.val, before |-> before,
     arg |-> arg, now |-> U64Zero]

NoShow == [otp |-> OtpNew(0, 0), std |-> FALSE, out |-> None]

\* a call can be made: the process has not panicked, the run is not over
Running == result.kind # "panic" /\ ops < MaxOps

\* what every call leaves alone
Fixed == UNCHANGED <<length, out_len, overflow_checks, totp, shown>>

Record(call) ==
    /\ prev' = result
    /\ result' = call
    /\ ops' = ops + 1

\* Hotp::new and Hotp::with_hasher: a keyed hasher with nothing buffered,
\* counter 0, the length or 6
Init ==
    /\ hasher = <<>>
    /\ counter = U64Zero
    /\ \E l \in LengthArgs : length = UnwrapOr(l, 6)
    /\ out_len \in OutLens
    /\ overflow_checks \in BOOLEAN
    /\ table = {}
    /\ totp = NoTotp
    /\ result = NoCall
    /\ prev = NoCall
    /\ trail = [valid |-> TRUE, codes |-> <<>>]
    /\ ops = 0
    /\ shown = NoShow

\* Hotp::counter
Hotp_counter ==
    /\ Running
    /\ Record(Call("counter", None, counter, Ok(counter)))
    /\ UNCHANGED <<hasher, counter, table, trail>>
    /\ Fixed

\* Hotp::increment_counter: the counter and the value returned
IncrementCounter(c) ==
    LET sum == CheckedAdd1(c)
    IN  IF sum.some THEN [counter |-> sum.val, out |-> Ok(sum.val)]
        ELSE [counter |-> c, out |-> Err("CounterOverflow")]

Hotp_increment_counter ==
    /\ Running
    /\ LET inc == IncrementCounter(counter)
       IN  /\ counter' = inc.counter
           /\ Record(Call("increment_counter", None, counter, inc.out))
    /\ trail' = [trail EXCEPT !.valid = FALSE]
    /\ UNCHANGED <<hasher, table>>
    /\ Fixed

\* Hotp::set_counter
Hotp_set_counter ==
    /\ Running
    /\ \E c \in CounterArgs :
        /\ counter' = c
        /\ Record(Call("set_counter", c, counter, Ok(None)))
    /\ trail' = [trail EXCEPT !.valid = FALSE]
    /\ UNCHANGED <<hasher, table>>
    /\ Fixed

\* Hotp::code, lines 80 to 82: the message that is finalized
Message(buf, c) == Update(buf, ToBeBytes(c))

Sample(tbl, msg, digest) == tbl \cup {[msg |-> msg, digest |-> digest]}

Hotp_code ==
    /\ Running
    /\ LET msg == Message(hasher, counter)
       IN  \E digest \in Finalize(table, msg, out_len) :
            /\ table' = Sample(table, msg, digest)
            /\ hasher' = ResetHasher(msg)
            /\ Record(Call("code", None, counter,
                           Truncate(digest, length, overflow_checks)))
    /\ UNCHANGED <<counter, trail>>
    /\ Fixed

\* a code_increment that returns the code and leaves the counter alone
CodeNoIncrement(c, code) == [counter |-> c, out |-> code]

\* Hotp::code_increment: `?` returns the error of code() before the
\* increment, and the error of the increment instead of the code
CodeIncrement(c, code) ==
    IF code.kind # "ok" THEN [counter |-> c, out |-> code]
    ELSE LET inc == IncrementCounter(c)
         IN  [counter |-> inc.counter,
              out |-> IF inc.out.kind = "ok" THEN code ELSE inc.out]

Hotp_code_increment ==
    /\ Running
    /\ LET msg == Message(hasher, counter)
       IN  \E digest \in Finalize(table, msg, out_len) :
            LET ci == CodeIncrement(counter,
                          Truncate(digest, length, overflow_checks))
            IN  /\ table' = Sample(table, msg, digest)
                /\ hasher' = ResetHasher(msg)
                /\ counter' = ci.counter
                /\ Record(Call("code_increment", None, counter, ci.out))
                /\ trail' = IF ci.out.kind = "ok"
                                THEN [trail EXCEPT !.codes = Append(@, ci.out.val)]
                            ELSE IF ci.out.kind = "err" /\ ci.counter = counter
                                THEN trail
                            ELSE [trail EXCEPT !.valid = FALSE]
    /\ Fixed

Next ==
    \/ Hotp_counter
    \/ Hotp_increment_counter
    \/ Hotp_set_counter
    \/ Hotp_code
    \/ Hotp_code_increment

Spec == Init /\ [][Next]_vars

----------------------------------------------------------------------------
(* Totp *)

MaxCalls == 2

\* the digit lengths and digest types of the Totp generators
TotpLengthArgs == {None, Some(10)}

TotpOutLens == {0, 16, 20}

\* the intervals and skews handed to Totp::new
IntervalArgs == {None, Some(0), Some(1)}

SkewArgs == {None, Some(0)}

\* the values the time callback returns, and the times of code_at_time
TimeVals == {U64Zero, U64(59), U64(90), U64Max}

\* u32::to_ne_bytes of a value below 2^31, on a little-endian target
ToNeBytes(n) ==
    <<n % ByteBase, (n \div 2^8) % ByteBase, (n \div 2^16) % ByteBase, n \div 2^24>>

\* constant_time_eq: every byte is compared, none differs
ConstantTimeEq(a, b) ==
    Len(a) = Len(b) /\ Cardinality({i \in 1..Len(a) : a[i] # b[i]}) = 0

\* impl PartialEq<u32> for Otp
OtpEq(otp, other) == ConstantTimeEq(ToNeBytes(otp.code), ToNeBytes(other))

\* the codes a caller may submit: 0 and the code of every digest
Candidates ==
    {0} \cup {Truncate(d, length, overflow_checks).val.code :
                d \in {e \in DigestsOf(out_len) :
                        Truncate(e, length, overflow_checks).kind = "ok"}}

\* Totp::new after Hotp::new: the interval or 30, the skew or 1
InitTotp ==
    /\ hasher = <<>>
    /\ counter = U64Zero
    /\ \E l \in TotpLengthArgs : length = UnwrapOr(l, 6)
    /\ out_len \in TotpOutLens
    /\ overflow_checks \in BOOLEAN
    /\ table = {}
    /\ \E i \in IntervalArgs, k \in SkewArgs :
        totp = [interval |-> UnwrapOr(i, 30), skew |-> UnwrapOr(k, 1)]
    /\ result = NoCall
    /\ prev = NoCall
    /\ trail = [valid |-> FALSE, codes |-> <<>>]
    /\ ops = 0
    /\ shown = NoShow

CanCall == result.kind # "panic" /\ ops < MaxCalls

At(call, now) == [call EXCEPT !.now = now]

\* Totp::counter, given the value the time callback returned
TotpCounter(now) ==
    IF totp.interval = 0 THEN Panic("attempt to divide by zero")
    ELSE Ok(U64Div(now, totp.interval))

\* Totp::code_at_time(time), called as op with the callback value now
CodeAtTime(op, time, now) ==
    IF totp.interval = 0
        THEN /\ Record(At(Call(op, time, counter,
                               Panic("attempt to divide by zero")), now))
             /\ UNCHANGED <<hasher, counter, table>>
    ELSE LET c == U64Div(time, totp.interval)
             msg == Message(hasher, c)
         IN  \E digest \in Finalize(table, msg, out_len) :
                /\ counter' = c
                /\ table' = Sample(table, msg, digest)
                /\ hasher' = ResetHasher(msg)
                /\ Record(At(Call(op, time, counter,
                                  Truncate(digest, length, overflow_checks)),
                             now))

Totp_code_at_time ==
    /\ CanCall
    /\ \E time \in TimeVals : CodeAtTime("code_at_time", time, U64Zero)
    /\ UNCHANGED trail
    /\ Fixed

\* Totp::code: the counter of the current time is handed to code_at_time
\* as its time
Totp_code ==
    /\ CanCall
    /\ \E now \in TimeVals :
        LET c == TotpCounter(now)
        IN  IF c.kind = "panic"
                THEN /\ Record(At(Call("totp_code", None, counter, c), now))
                     /\ UNCHANGED <<hasher, counter, table>>
            ELSE CodeAtTime("totp_code", c.val, now)
    /\ UNCHANGED trail
    /\ Fixed

\* the loop of Totp::validate_code from `value` on: every way it can run,
\* one for each digest the keyed hash may return
RECURSIVE ValidateLoop(_, _, _, _, _)
ValidateLoop(value, last, buf, tbl, code) ==
    LET msg == Message(buf, value)
        buf2 == ResetHasher(msg)
    IN  UNION {
            LET tbl2 == Sample(tbl, msg, digest)
                otp == Truncate(digest, length, overflow_checks)
                here == [counter |-> value, hasher |-> buf2, table |-> tbl2]
            IN  IF otp.kind = "panic" THEN {[out |-> otp] @@ here}
                ELSE IF otp.kind = "ok" /\ OtpEq(otp.val, code)
                    THEN {[out |-> Ok(TRUE)] @@ here}
                ELSE IF value = last THEN {[out |-> Ok(FALSE)] @@ here}
                ELSE ValidateLoop(U64Succ(value), last, buf2, tbl2, code)
            : digest \in Finalize(tbl, msg, out_len) }

Totp_validate_code ==
    /\ CanCall
    /\ \E code \in Candidates, now \in TimeVals :
        LET c == TotpCounter(now)
        IN  IF c.kind = "panic"
                THEN /\ Record(At(Call("validate_code", code, counter, c), now))
                     /\ UNCHANGED <<hasher, counter, table>>
            ELSE \E run \in ValidateLoop(SaturatingSub(c.val, totp.skew),
                                         SaturatingAdd(c.val, totp.skew),
                                         hasher, table, code) :
                    /\ counter' = run.counter
                    /\ hasher' = run.hasher
                    /\ table' = run.table
                    /\ Record(At(Call("validate_code", code, counter,
                                      run.out), now))
    /\ UNCHANGED trail
    /\ Fixed

NextTotp ==
    \/ Totp_code_at_time
    \/ Totp_code
    \/ Totp_validate_code

SpecTotp == InitTotp /\ [][NextTotp]_vars

----------------------------------------------------------------------------
(* impl Display for Otp *)

DigitChar(d) == <<"0", "1", "2", "3", "4", "5", "6", "7", "8", "9">>[d + 1]

\* u32::to_string: the decimal digits, "0" for 0
RECURSIVE U32ToString(_)
U32ToString(n) ==
    IF n < 10 THEN <<DigitChar(n)>>
    ELSE Append(U32ToString(n \div 10), DigitChar(n % 10))

\* iter::repeat('0').take(n)
Zeros(n) == [i \in 1..n |-> "0"]

\* a padding that puts the zeros after the digits
PadRight(text, width) ==
    IF Len(text) >= width THEN text ELSE text \o Zeros(width - Len(text))

\* the format {:0width$}: zeros before the digits up to the width, and the
\* digits as they are when they are at least as many
PadLeft(text, width) ==
    IF Len(text) >= width THEN text ELSE Zeros(width - Len(text)) \o text

\* with the std feature: write!(f, "{:0width$}", self.code, width = self.length)
FmtStd(otp) == Ok(PadLeft(U32ToString(otp.code), otp.length))

\* without it: the digits are copied over the end of length zeros
FmtNoStd(otp) ==
    LET out == Zeros(otp.length)
        code == U32ToString(otp.code)
    IN  IF ~(Len(code) <= Len(out))
            THEN Panic("assertion failed: code_length <= out_len")
        ELSE LET start == Len(out) - Len(code)
             IN  Ok([i \in 1..Len(out) |->
                        IF i > start THEN code[i - start] ELSE out[i]])

Fmt(otp, std) == IF std THEN FmtStd(otp) ELSE FmtNoStd(otp)

\* the digests of the model that have offset + 4 bytes
DisplayDigests == {Sha1Count0, Sha1Count1, Sha1AllOnes, Md5Offset12}

\* the digit lengths of the Otps that are shown
DisplayLengths == 0..11

\* Otp::new is private to the crate and Hotp::code alone calls it: the Otps
\* are the ones Hotp::code returns
Otps ==
    {Truncate(x[1], x[2], x[3]).val :
        x \in {y \in DisplayDigests \X DisplayLengths \X BOOLEAN :
                Truncate(y[1], y[2], y[3]).kind = "ok"}}

InitOtp ==
    /\ hasher = <<>>
    /\ counter = U64Zero
    /\ length = 0
    /\ out_len = 0
    /\ overflow_checks = FALSE
    /\ table = {}
    /\ totp = NoTotp
    /\ result = NoCall
    /\ prev = NoCall
    /\ trail = [valid |-> FALSE, codes |-> <<>>]
    /\ ops = 0
    /\ \E otp \in Otps, std \in BOOLEAN :
        shown = [otp |-> otp, std |-> std, out |-> None]

\* Display::fmt, once for the Otp
Otp_fmt ==
    /\ shown.out = None
    /\ shown' = [shown EXCEPT !.out = Some(Fmt(shown.otp, shown.std))]
    /\ UNCHANGED <<hasher, counter, length, out_len, overflow_checks, table,
                   totp, result, prev, trail, ops>>

NextOtp == Otp_fmt

SpecOtp == InitOtp /\ [][NextOtp]_vars

----------------------------------------------------------------------------
(* Properties of Hotp *)

\* the digest the keyed hash returned for the big-endian bytes of c
DigestOf(c) == Lookup(table, ToBeBytes(c))

HasDigest(c) == Sampled(table, ToBeBytes(c))

\* the digest has fewer than offset + 4 bytes
TooShort(digest) ==
    \/ Len(digest) < 4
    \/ Len(digest) < (digest[Len(digest)] % 16) + 4

\* n mod 10^w for n < 2^31: from ten digits on, 10^w exceeds every such n
DecimalMod(n, w) == IF w >= 10 THEN n ELSE n % 10^w

\* what set_counter(c) and code() return on a generator with the same
\* secret, digit length and build
CodeOfCounter(c) == Truncate(DigestOf(c), length, overflow_checks)

\* C1: for every counter, digit width and digest with at least offset + 4
\* bytes, code() returns the Otp of value
\* (big-endian u32 of digest[offset..offset+4] & 0x7fffffff) mod 10^width
\* and of that width.
C1_CodeIsDynamicTruncation ==
    (result.op = "code" /\ HasDigest(result.before)
        /\ ~TooShort(DigestOf(result.before)))
    => LET d == DigestOf(result.before)
           offset == d[Len(d)] % 16
       IN  /\ result.kind = "ok"
           /\ result.val = [code |-> DecimalMod(Binary(d, offset), length),
                            length |-> length]

\* C4: whenever the digest has fewer than offset + 4 bytes, code() returns
\* the error HashTooShort as a value: it does not abort.
C4_ShortDigestIsHashTooShort ==
    (result.op = "code" /\ HasDigest(result.before)
        /\ TooShort(DigestOf(result.before)))
    => result.kind = "err" /\ result.val = "HashTooShort"

\* C5: for every digit width w >= 1, also when 10^w does not fit in 32
\* bits, code() is well defined and the value v of its Otp is in [0, 10^w).
C5_CodeInRangeForEveryWidth ==
    (result.op = "code" /\ length >= 1 /\ HasDigest(result.before)
        /\ ~TooShort(DigestOf(result.before)))
    => /\ result.kind = "ok"
       /\ result.val.code >= 0
       /\ DecimalMod(result.val.code, length) = result.val.code

\* C6: at the maximum counter increment_counter fails with CounterOverflow
\* and the counter stays at the maximum; below it, it returns the counter
\* plus one, which is the new counter.
C6_IncrementOrOverflow ==
    result.op = "increment_counter"
    => IF result.before = U64Max
           THEN /\ result.kind = "err" /\ result.val = "CounterOverflow"
                /\ counter = U64Max
       ELSE /\ result.kind = "ok" /\ result.val = counter
            /\ counter # U64Zero /\ U64Pred(counter) = result.before

C6_Witness ==
    /\ result.op = "increment_counter" /\ result.before = U64Max
    /\ result.kind = "err" /\ prev.op = "set_counter"

----------------------------------------------------------------------------
(* Properties of Totp *)

\* the time step of the value the time callback returned to the last call
Step == U64Div(result.now, totp.interval)

\* the counters within skew steps of c
Window(c) ==
    {SaturatingSub(c, i) : i \in 0..totp.skew}
        \cup {SaturatingAdd(c, i) : i \in 0..totp.skew}

\* code is the code of counter c
IsCodeOf(code, c) ==
    /\ HasDigest(c)
    /\ CodeOfCounter(c).kind = "ok"
    /\ CodeOfCounter(c).val.code = code

\* C2: for every time t and interval >= 1, Totp::code() returns what
\* code_at_time(t) returns: the code of counter floor(t / interval).
C2_CodeIsCodeAtCurrentTime ==
    (/\ result.op = "totp_code" /\ result.kind = "ok"
     /\ totp.interval >= 1 /\ HasDigest(Step))
    => CodeOfCounter(Step) = Ok(result.val)

\* C3: validate_code(candidate) returns true if and only if the candidate
\* is the code of a counter in [max(0, c - k), c + k], c the current step.
C3_ValidateAcceptsExactlyTheWindow ==
    (result.op = "validate_code" /\ totp.interval >= 1)
    => ((result.kind = "ok" /\ result.val)
            <=> \E v \in Window(Step) : IsCodeOf(result.arg, v))

\* C10: the code that Totp::code() returns is accepted by validate_code on
\* the same generator when the time callback returns the same time.
C10_GeneratedCodeValidates ==
    (/\ result.op = "validate_code" /\ result.kind = "ok"
     /\ prev.op = "totp_code" /\ prev.kind = "ok"
     /\ result.now = prev.now /\ totp.interval >= 1)
    => (result.arg = prev.val.code => result.val)

----------------------------------------------------------------------------
(* Properties of Otp *)

\* the number a string of decimal digits denotes
RECURSIVE Value(_)
Value(text) ==
    IF Len(text) = 0 THEN 0
    ELSE Value(SubSeq(text, 1, Len(text) - 1)) * 10
            + (CHOOSE d \in 0..9 : DigitChar(d) = text[Len(text)])

\* v < 10^w for v < 2^31
Below10Pow(v, w) == w >= 10 \/ v < 10^w

====
